---- MODULE Spec2Model ----
(***************************************************************************)
(* gat: a multi-repository overview tool (list / status / fetch / pull).   *)
(* The model follows src/src/main.rs and src/src/config.rs.  The git       *)
(* backend (git2) is outside the repository: every answer it gives is an   *)
(* input chosen by \E in the action that issues the query.                 *)
(*                                                                         *)
(* Text is modelled as a sequence of one-character strings where the code  *)
(* takes it apart (locations), and as an atom where it only prints it.     *)
(***************************************************************************)
EXTENDS Integers, Sequences, FiniteSets, TLC

VARIABLES
    cmd,        \* the subcommand parsed by Gat::parse()
    repo,       \* the descriptor the for loop is at (an element of
                \* config.repository, drawn when the loop reaches it)
    i,          \* index of the next repository the for loop takes
    pc,         \* "loop" | "download" | "iterated" | "done" | "panicked"
    out,        \* lines the current iteration has written to stdout, in order
    err,        \* lines the current iteration has written to stderr, in order
    queries,    \* backend calls of the current iteration, with their answers
    result,     \* outcome of the current iteration's operation
    events,     \* callbacks the backend has made during the current fetch
    flagset,    \* status code: a git2::Status flagset
    code,       \* status code: the rendered two characters
    descriptor, \* name derivation: a config::Repository
    derived     \* name derivation: outcome of Repository::name()

vars == <<cmd, repo, i, pc, out, err, queries, result, events,
          flagset, code, descriptor, derived>>

-----------------------------------------------------------------------------
(* Bounds *)

NumRepos == 2
MaxPaths == 2
MaxCallbacks == 2
MaxObjects == 2
MaxLocLen == 4

-----------------------------------------------------------------------------
(* config.rs: Repository and Repository::name *)

Chars == {"/", ".", "a"}

None == [some |-> FALSE, val |-> <<>>]
Some(s) == [some |-> TRUE, val |-> s]

\* All character sequences of length at most n.
RECURSIVE StringsUpTo(_)
StringsUpTo(n) ==
    IF n = 0 THEN {<<>>}
    ELSE LET shorter == StringsUpTo(n - 1)
         IN  shorter \cup {Append(s, c) : s \in {t \in shorter : Len(t) = n - 1}, c \in Chars}

\* The segments between separators, empty ones dropped (repeated and
\* trailing separators do not make components).
RECURSIVE Segments(_, _, _)
Segments(s, k, cur) ==
    IF k > Len(s)
    THEN IF cur = <<>> THEN <<>> ELSE <<cur>>
    ELSE IF s[k] = "/"
         THEN (IF cur = <<>> THEN <<>> ELSE <<cur>>) \o Segments(s, k + 1, <<>>)
         ELSE Segments(s, k + 1, Append(cur, s[k]))

HasRoot(s) == Len(s) > 0 /\ s[1] = "/"

\* std::path::Path::components on Unix: a leading separator is RootDir, "."
\* is dropped except as the first component of a relative path (CurDir),
\* ".." is ParentDir, anything else is Normal.
RECURSIVE ComponentsFrom(_, _, _)
ComponentsFrom(segs, k, rooted) ==
    IF k > Len(segs) THEN <<>>
    ELSE LET seg == segs[k]
             rest == ComponentsFrom(segs, k + 1, rooted)
         IN  IF seg = <<".">>
             THEN IF k = 1 /\ ~rooted
                  THEN <<[kind |-> "CurDir", val |-> seg]>> \o rest
                  ELSE rest
             ELSE IF seg = <<".", ".">>
             THEN <<[kind |-> "ParentDir", val |-> seg]>> \o rest
             ELSE <<[kind |-> "Normal", val |-> seg]>> \o rest

Components(s) ==
    (IF HasRoot(s) THEN <<[kind |-> "RootDir", val |-> <<"/">>]>> ELSE <<>>)
    \o ComponentsFrom(Segments(s, 1, <<>>), 1, HasRoot(s))

\* Path::file_name: the last component when it is a Normal one.
FileName(s) ==
    LET comps == Components(s)
    IN  IF comps = <<>> THEN None
        ELSE IF comps[Len(comps)].kind = "Normal"
             THEN Some(comps[Len(comps)].val)
             ELSE None

\* A plausible slip: the whole location when there is no final segment.
NameLenient(d) ==
    IF d.name.some THEN [ok |-> TRUE, val |-> d.name.val]
    ELSE IF FileName(d.location).some
         THEN [ok |-> TRUE, val |-> FileName(d.location).val]
         ELSE [ok |-> TRUE, val |-> d.location]

\* Repository::name: the explicit name, else file_name().unwrap(); the
\* unwrap of None panics (ok = FALSE).  to_str() cannot fail: location is a
\* String.
Name(d) ==
    IF d.name.some THEN [ok |-> TRUE, val |-> d.name.val]
    ELSE IF FileName(d.location).some
         THEN [ok |-> TRUE, val |-> FileName(d.location).val]
         ELSE [ok |-> FALSE, val |-> <<>>]

-----------------------------------------------------------------------------
(* main.rs, status: the two-character code of one status entry *)

Flags == {"INDEX_NEW", "INDEX_MODIFIED", "INDEX_DELETED", "INDEX_RENAMED",
          "INDEX_TYPECHANGE", "WT_NEW", "WT_MODIFIED", "WT_DELETED",
          "WT_TYPECHANGE", "WT_RENAMED", "IGNORED", "CONFLICTED"}

\* let mut istatus = match status.status() { ... }
IStatus(s) ==
    IF "INDEX_NEW" \in s THEN "A"
    ELSE IF "WT_MODIFIED" \in s THEN "M"
    ELSE IF "WT_DELETED" \in s THEN "D"
    ELSE IF "WT_RENAMED" \in s THEN "R"
    ELSE IF "WT_TYPECHANGE" \in s THEN "T"
    ELSE " "

\* let mut wstatus = match status.status() { ... }, without the side effect
\* on istatus.
WStatus(s) ==
    IF "WT_NEW" \in s THEN "?"
    ELSE IF "WT_MODIFIED" \in s THEN "M"
    ELSE IF "WT_DELETED" \in s THEN "D"
    ELSE IF "WT_RENAMED" \in s THEN "R"
    ELSE IF "WT_TYPECHANGE" \in s THEN "T"
    ELSE " "

\* A plausible slip: the ignored override reaches the worktree column only.
StatusCodeHalfOverride(s) ==
    LET i0 == IStatus(s)
        i1 == IF "WT_NEW" \in s /\ i0 = " " THEN "?" ELSE i0
    IN  IF "IGNORED" \in s THEN <<i1, "!">> ELSE <<i1, WStatus(s)>>

\* The pair <<istatus, wstatus>> handed to println!.
StatusCode(s) ==
    LET i0 == IStatus(s)
        i1 == IF "WT_NEW" \in s /\ i0 = " " THEN "?" ELSE i0
    IN  IF "IGNORED" \in s THEN <<"!", "!">> ELSE <<i1, WStatus(s)>>

-----------------------------------------------------------------------------
(* The repositories a configuration can list, and what the backend can say *)

NoDescription == [some |-> FALSE, val |-> ""]

\* One descriptor whose name derives from the location, one with an explicit
\* name, one with neither a name nor a final path segment.
Descriptors ==
    { [name |-> None, location |-> <<"/", "a">>, description |-> NoDescription],
      [name |-> Some(<<"b">>), location |-> <<"/">>, description |-> NoDescription],
      [name |-> None, location |-> <<".">>,
       description |-> [some |-> TRUE, val |-> "work"]] }

OpenAnswers == {"ok", "err"}
HeadAnswers == {"main", "unborn", "notfound", "error"}

\* Status entries the backend can list: (path, flagset).
StatusEntries ==
    { [path |-> [some |-> TRUE, val |-> "a"], flags |-> {"WT_MODIFIED"}],
      [path |-> [some |-> TRUE, val |-> "b"], flags |-> {"INDEX_NEW", "WT_DELETED"}],
      [path |-> [some |-> FALSE, val |-> ""], flags |-> {"WT_NEW"}] }

\* Listings: sequences of distinct entries, at most MaxPaths long.
RECURSIVE ListingsUpTo(_)
ListingsUpTo(n) ==
    IF n = 0 THEN {<<>>}
    ELSE LET shorter == ListingsUpTo(n - 1)
         IN  shorter \cup
             {Append(l, e) : l \in {t \in shorter : Len(t) = n - 1},
                             e \in StatusEntries}

Distinct(l) == \A j, k \in 1..Len(l) : j # k => l[j] # l[k]

Listings == {l \in ListingsUpTo(MaxPaths) : Distinct(l)}

\* statuses() answers: a listing, or a failure.
StatusAnswers ==
    {[ans |-> "ok", listing |-> l] : l \in Listings}
    \cup {[ans |-> "err", listing |-> <<>>]}

Query(call, ans) == [call |-> call, ans |-> ans, listing |-> <<>>]

StatusQuery(a) == [call |-> "statuses", ans |-> a.ans, listing |-> a.listing]

-----------------------------------------------------------------------------
(* main.rs: print_title *)

DescriptionText(d) ==
    IF d.description.some THEN d.description.val ELSE "No description"

\* The operation's outcome: its result, what it printed, what it asked.
Outcome(res, o, e, q) == [res |-> res, out |-> o, err |-> e, queries |-> q]

\* print_title(&repository): open, is_bare, head, println!.  The arguments of
\* eprintln!/println! are evaluated first, so a panic of name() prints
\* nothing.
PrintTitle(d, openAns, bare, headAns) ==
    LET q1 == <<Query("open", openAns)>>
        q2 == Append(q1, Query("is_bare", IF bare THEN "bare" ELSE "worktree"))
        q3 == Append(q2, Query("head", headAns))
        n  == Name(d)
    IN  IF openAns = "err" THEN Outcome("OpenError", <<>>, <<>>, q1)
        ELSE IF bare
        THEN IF ~n.ok THEN Outcome("Panic", <<>>, <<>>, q2)
             ELSE Outcome("BareError", <<>>,
                          <<[kind |-> "bare_warning", name |-> n.val,
                             description |-> DescriptionText(d),
                             location |-> d.location]>>, q2)
        ELSE IF headAns = "error"
        THEN Outcome("HeadError", <<>>, <<[kind |-> "cant_get_head"]>>, q3)
        ELSE IF ~n.ok THEN Outcome("Panic", <<>>, <<>>, q3)
        ELSE Outcome("Ok",
                     <<[kind |-> "title", name |-> n.val,
                        branch |-> IF headAns = "main" THEN "main" ELSE "no branch",
                        location |-> d.location,
                        description |-> DescriptionText(d)]>>,
                     <<>>, q3)

-----------------------------------------------------------------------------
(* main.rs: status *)

PathText(p) == IF p.some THEN p.val ELSE "None"

\* println!("  - {}{}  {}", istatus, wstatus, path)
PathLine(e) == [kind |-> "path", code |-> StatusCode(e.flags), path |-> PathText(e.path)]

PathLines(l) == [k \in 1..Len(l) |-> PathLine(l[k])]

NothingChanged == [kind |-> "nothing_changed"]

\* A plausible slip: the emptiness test off by one.
StatusBodyLinesOffByOne(first, second) ==
    IF Len(first) <= 1 THEN <<NothingChanged>> ELSE PathLines(second)

\* What lines 75-111 print given the listing of the first statuses() call and
\* the listing of the second one.
StatusBodyLines(first, second) ==
    IF Len(first) = 0 THEN <<NothingChanged>> ELSE PathLines(second)

\* status(repository): title, reopen, bare re-check, statuses() for the
\* emptiness test, statuses() again for the loop.
Status(d, openAns, bare, headAns, open2, bare2, st1, st2) ==
    LET t  == PrintTitle(d, openAns, bare, headAns)
        q1 == Append(t.queries, Query("open", open2))
        q2 == Append(q1, Query("is_bare", IF bare2 THEN "bare" ELSE "worktree"))
        q3 == Append(q2, StatusQuery(st1))
        q4 == Append(q3, StatusQuery(st2))
    IN  IF t.res # "Ok" THEN t
        ELSE IF open2 = "err" THEN Outcome("OpenError", t.out, t.err, q1)
        ELSE IF bare2 THEN Outcome("BareError", t.out, t.err, q2)
        ELSE IF st1.ans = "err" THEN Outcome("StatusError", t.out, t.err, q3)
        ELSE IF Len(st1.listing) = 0
        THEN Outcome("Ok", t.out \o StatusBodyLines(st1.listing, <<>>), t.err, q3)
        ELSE IF st2.ans = "err" THEN Outcome("StatusError", t.out, t.err, q4)
        ELSE Outcome("Ok", t.out \o StatusBodyLines(st1.listing, st2.listing),
                     t.err, q4)

\* pull(repository): the title report alone.
Pull(d, openAns, bare, headAns) == PrintTitle(d, openAns, bare, headAns)

-----------------------------------------------------------------------------
(* main.rs: fetch *)

\* update_tips callback: println!("[new] ...") or println!("[updated] ...")
TipLine(aIsZero) ==
    IF aIsZero THEN [kind |-> "tip_new"] ELSE [kind |-> "tip_updated"]

\* transfer_progress callback: what one call prints.
TransferLines(received, total) ==
    IF received = total
    THEN <<[kind |-> "resolving", received |-> received, total |-> total]>>
    ELSE IF total > 0
    THEN <<[kind |-> "received", received |-> received, total |-> total]>>
    ELSE <<>>

\* The summary after download: the "(used N local objects)" clause only
\* when local_objects() > 0.
SummaryLine(local) ==
    [kind |-> "summary", local_clause |-> local > 0, local |-> local]

\* A plausible slip: the fetch's callbacks handed to remote.update_tips too.
UpdateTipsCallbacksShared == "Some"

\* The callbacks argument of remote.update_tips(None, ...).
UpdateTipsCallbacks == "None"

\* What the backend's tip updates print during remote.update_tips: the
\* backend calls the update_tips callback of the callbacks it is handed.
TipsPrinted(callbacks, updates) ==
    IF callbacks = "None" THEN <<>>
    ELSE [k \in 1..Len(updates) |-> TipLine(updates[k])]

\* The last transfer_progress event delivered so far, if any.
RECURSIVE LastTransfer(_, _)
LastTransfer(ev, k) ==
    IF k = 0 THEN [cb |-> "transfer_progress", received |-> 0, total |-> 0]
    ELSE IF ev[k].cb = "transfer_progress" THEN ev[k]
    ELSE LastTransfer(ev, k - 1)

-----------------------------------------------------------------------------
(* main.rs: main, the dispatch loop *)

Commands == {"list", "status", "fetch", "pull"}

\* if let Err(err) = op(repo) { eprintln!("{:?}", err) }
Report(res) ==
    IF res \in {"Ok", "Panic"} THEN <<>>
    ELSE <<[kind |-> "report", error |-> res]>>

\* let _ = print_title(&repo);
Discard(res) == <<>>

\* The loop body ends: a panic unwinds out of main, anything else leaves the
\* loop ready to take the next repository.
EndIteration(o, reported) ==
    /\ out' = o.out
    /\ err' = o.err \o reported
    /\ queries' = o.queries
    /\ result' = o.res
    /\ i' = i
    /\ pc' = IF o.res = "Panic" THEN "panicked" ELSE "iterated"

\* config.repository holds NumRepos descriptors; no iteration reads another
\* iteration's descriptor, so each is drawn when the loop reaches it.
AtLoop == pc = "loop" /\ i <= NumRepos

\* The answers the backend is asked for: a query that is never issued has
\* no answer to choose.
BareAsked(openAns) == IF openAns = "ok" THEN BOOLEAN ELSE {FALSE}

HeadAsked(openAns, bare) ==
    IF openAns = "ok" /\ ~bare THEN HeadAnswers ELSE {"main"}

TitleOk(d, openAns, bare, headAns) ==
    PrintTitle(d, openAns, bare, headAns).res = "Ok"

ReopenAsked(titled) == IF titled THEN OpenAnswers ELSE {"ok"}

RebareAsked(titled, open2) ==
    IF titled /\ open2 = "ok" THEN BOOLEAN ELSE {FALSE}

NoListing == [ans |-> "ok", listing |-> <<>>]

FirstStatusAsked(titled, open2, bare2) ==
    IF titled /\ open2 = "ok" /\ ~bare2 THEN StatusAnswers ELSE {NoListing}

SecondStatusAsked(titled, open2, bare2, st1) ==
    IF titled /\ open2 = "ok" /\ ~bare2 /\ st1.ans = "ok" /\ Len(st1.listing) > 0
    THEN StatusAnswers ELSE {NoListing}

RemoteAsked(titled, open2, bare2) ==
    IF titled /\ open2 = "ok" /\ ~bare2 THEN {"ok", "notfound"} ELSE {"ok"}

\* Commands::List => for repo in config.repository { let _ = print_title(&repo); }
ListBody ==
    /\ AtLoop /\ cmd = "list"
    /\ \E d \in Descriptors :
       \E openAns \in OpenAnswers :
       \E bare \in BareAsked(openAns) :
       \E headAns \in HeadAsked(openAns, bare) :
         /\ repo' = d
         /\ LET o == PrintTitle(d, openAns, bare, headAns)
            IN  EndIteration(o, Discard(o.res))
    /\ events' = <<>>
    /\ UNCHANGED <<cmd, flagset, code, descriptor, derived>>

\* Commands::Status => for repo ... { if let Err(err) = status(repo) {...} }
StatusBody ==
    /\ AtLoop /\ cmd = "status"
    /\ \E d \in Descriptors :
       \E openAns \in OpenAnswers :
       \E bare \in BareAsked(openAns) :
       \E headAns \in HeadAsked(openAns, bare) :
       LET titled == TitleOk(d, openAns, bare, headAns) IN
       \E open2 \in ReopenAsked(titled) :
       \E bare2 \in RebareAsked(titled, open2) :
       \E st1 \in FirstStatusAsked(titled, open2, bare2) :
       \E st2 \in SecondStatusAsked(titled, open2, bare2, st1) :
         /\ repo' = d
         /\ LET o == Status(d, openAns, bare, headAns, open2, bare2, st1, st2)
            IN  EndIteration(o, Report(o.res))
    /\ events' = <<>>
    /\ UNCHANGED <<cmd, flagset, code, descriptor, derived>>

\* Commands::Pull => for repo ... { if let Err(err) = pull(repo) {...} }
PullBody ==
    /\ AtLoop /\ cmd = "pull"
    /\ \E d \in Descriptors :
       \E openAns \in OpenAnswers :
       \E bare \in BareAsked(openAns) :
       \E headAns \in HeadAsked(openAns, bare) :
         /\ repo' = d
         /\ LET o == Pull(d, openAns, bare, headAns)
            IN  EndIteration(o, Report(o.res))
    /\ events' = <<>>
    /\ UNCHANGED <<cmd, flagset, code, descriptor, derived>>

\* fetch(repository) up to remote.download: title, reopen, bare re-check,
\* find_remote("origin").
FetchPrefix(d, openAns, bare, headAns, open2, bare2, remote) ==
    LET t  == PrintTitle(d, openAns, bare, headAns)
        q1 == Append(t.queries, Query("open", open2))
        q2 == Append(q1, Query("is_bare", IF bare2 THEN "bare" ELSE "worktree"))
        q3 == Append(q2, Query("find_remote", remote))
    IN  IF t.res # "Ok" THEN t
        ELSE IF open2 = "err" THEN Outcome("OpenError", t.out, t.err, q1)
        ELSE IF bare2 THEN Outcome("BareError", t.out, t.err, q2)
        ELSE IF remote = "notfound" THEN Outcome("RemoteError", t.out, t.err, q3)
        ELSE Outcome("Downloading", t.out, t.err, q3)

\* Commands::Fetch => for repo ... { if let Err(err) = fetch(repo) {...} },
\* up to the call of remote.download.
FetchStart ==
    /\ AtLoop /\ cmd = "fetch"
    /\ events' = <<>>
    /\ \E d \in Descriptors :
       \E openAns \in OpenAnswers :
       \E bare \in BareAsked(openAns) :
       \E headAns \in HeadAsked(openAns, bare) :
       LET titled == TitleOk(d, openAns, bare, headAns) IN
       \E open2 \in ReopenAsked(titled) :
       \E bare2 \in RebareAsked(titled, open2) :
       \E remote \in RemoteAsked(titled, open2, bare2) :
         /\ repo' = d
         /\ LET o == FetchPrefix(d, openAns, bare, headAns, open2, bare2, remote)
            IN  IF o.res = "Downloading"
                THEN /\ out' = o.out /\ err' = o.err /\ queries' = o.queries
                     /\ result' = "Downloading"
                     /\ pc' = "download" /\ i' = i
                ELSE EndIteration(o, Report(o.res))
    /\ UNCHANGED <<cmd, flagset, code, descriptor, derived>>

\* The callbacks travel in FetchOptions to remote.download alone: the backend
\* can call them while download runs, at most MaxCallbacks times here.
InDownload == pc = "download" /\ Len(events) < MaxCallbacks

\* cb.credentials: username_from_url.unwrap() panics when the URL carries no
\* user name; the panic is resumed when download returns and ends the process.
Credentials ==
    /\ InDownload
    /\ \E username \in BOOLEAN :
         /\ events' = Append(events, [cb |-> "credentials", username |-> username])
         /\ IF username
            THEN UNCHANGED <<pc, result>>
            ELSE pc' = "panicked" /\ result' = "Panic"
    /\ UNCHANGED <<cmd, repo, i, out, err, queries,
                   flagset, code, descriptor, derived>>

\* cb.sideband_progress: the server's text, verbatim.
SidebandProgress ==
    /\ InDownload
    /\ events' = Append(events, [cb |-> "sideband_progress"])
    /\ out' = Append(out, [kind |-> "sideband"])
    /\ UNCHANGED <<cmd, repo, i, pc, err, queries, result,
                   flagset, code, descriptor, derived>>

\* cb.update_tips: one "[new]" or "[updated]" line per call.  The callback
\* is registered with the others, so the backend may call it while download
\* runs.
UpdateTips ==
    /\ InDownload
    /\ \E aIsZero \in BOOLEAN :
         /\ events' = Append(events, [cb |-> "update_tips", a_is_zero |-> aIsZero])
         /\ out' = Append(out, TipLine(aIsZero))
    /\ UNCHANGED <<cmd, repo, i, pc, err, queries, result,
                   flagset, code, descriptor, derived>>

\* cb.transfer_progress: the backend's counters never decrease and
\* received_objects <= total_objects.
TransferProgress ==
    /\ InDownload
    /\ \E total \in 0..MaxObjects, received \in 0..MaxObjects :
         LET last == LastTransfer(events, Len(events))
         IN  /\ received <= total
             /\ received >= last.received
             /\ total >= last.total
             /\ events' = Append(events, [cb |-> "transfer_progress",
                                          received |-> received, total |-> total])
             /\ out' = out \o TransferLines(received, total)
    /\ UNCHANGED <<cmd, repo, i, pc, err, queries, result,
                   flagset, code, descriptor, derived>>

\* fetch(repository) from the return of remote.download: the summary,
\* disconnect and remote.update_tips(None, ...).
FetchSuffix(o0, dl, local, disc, tips, updates) ==
    LET q1 == Append(o0.queries, Query("download", dl))
        q2 == Append(q1, Query("stats", "ok"))
        q3 == Append(q2, Query("disconnect", disc))
        q4 == Append(q3, Query("update_tips", tips))
        o1 == Append(o0.out, SummaryLine(local))
        o2 == o1 \o TipsPrinted(UpdateTipsCallbacks, updates)
    IN  IF dl = "err" THEN Outcome("DownloadError", o0.out, o0.err, q1)
        ELSE IF disc = "err" THEN Outcome("DisconnectError", o1, o0.err, q3)
        ELSE IF tips = "err" THEN Outcome("TipsError", o2, o0.err, q4)
        ELSE Outcome("Ok", o2, o0.err, q4)

\* Tip updates the backend makes during remote.update_tips.
TipUpdates == {<<>>, <<TRUE>>, <<FALSE>>}

\* remote.download returns and fetch runs to its end.
FetchFinish ==
    /\ pc = "download"
    /\ \E dl \in {"ok", "err"} :
       \E local \in (IF dl = "ok" THEN 0..MaxObjects ELSE {0}) :
       \E disc \in (IF dl = "ok" THEN {"ok", "err"} ELSE {"ok"}) :
       \E tips \in (IF dl = "ok" /\ disc = "ok" THEN {"ok", "err"} ELSE {"ok"}) :
       \E updates \in (IF dl = "ok" /\ disc = "ok" THEN TipUpdates ELSE {<<>>}) :
         LET o == FetchSuffix(Outcome(result, out, err, queries),
                              dl, local, disc, tips, updates)
         IN  EndIteration(o, Report(o.res))
    /\ UNCHANGED <<cmd, repo, events, flagset, code, descriptor, derived>>

NoDescriptor == [name |-> None, location |-> <<>>, description |-> NoDescription]

\* The for loop takes the next repository; out, err, queries and events
\* start again for its iteration.
NextRepo ==
    /\ pc = "iterated"
    /\ pc' = "loop"
    /\ i' = i + 1
    /\ out' = <<>> /\ err' = <<>> /\ queries' = <<>> /\ events' = <<>>
    /\ result' = "None"
    /\ repo' = NoDescriptor
    /\ UNCHANGED <<cmd, flagset, code, descriptor, derived>>

\* The for loop runs out of repositories and main returns.
Finish ==
    /\ pc = "loop" /\ i > NumRepos
    /\ pc' = "done"
    /\ UNCHANGED <<cmd, repo, i, out, err, queries, result, events,
                   flagset, code, descriptor, derived>>

Init ==
    /\ cmd \in Commands
    /\ repo = NoDescriptor
    /\ i = 1
    /\ pc = "loop"
    /\ out = <<>> /\ err = <<>> /\ queries = <<>> /\ events = <<>>
    /\ result = "None"
    /\ flagset = {} /\ code = <<>>
    /\ descriptor = NoDescriptor /\ derived = [ok |-> FALSE, val |-> <<>>]

Next ==
    \/ ListBody
    \/ StatusBody
    \/ PullBody
    \/ FetchStart
    \/ Credentials
    \/ SidebandProgress
    \/ UpdateTips
    \/ TransferProgress
    \/ FetchFinish
    \/ NextRepo
    \/ Finish

Spec == Init /\ [][Next]_vars

-----------------------------------------------------------------------------
(* The status code as a function of the flagset: every flagset, rendered     *)
(* once by the code of status's loop body.                                   *)

InitClassify ==
    /\ flagset \in SUBSET Flags
    /\ code = <<>>
    /\ pc = "classify"
    /\ cmd = "status" /\ repo = NoDescriptor /\ i = 1
    /\ out = <<>> /\ err = <<>> /\ queries = <<>> /\ events = <<>>
    /\ result = "None"
    /\ descriptor = NoDescriptor /\ derived = [ok |-> FALSE, val |-> <<>>]

Classify ==
    /\ pc = "classify"
    /\ code' = StatusCode(flagset)
    /\ pc' = "classified"
    /\ UNCHANGED <<cmd, repo, i, out, err, queries, result, events,
                   flagset, descriptor, derived>>

SpecClassify == InitClassify /\ [][Classify]_vars

-----------------------------------------------------------------------------
(* Repository::name as a function of the descriptor: every name option and   *)
(* every location of at most MaxLocLen characters.                           *)

NameOptions == {None, Some(<<>>), Some(<<"a">>)}

InitName ==
    /\ descriptor \in [name : NameOptions, location : StringsUpTo(MaxLocLen),
                       description : {NoDescription}]
    /\ derived = [ok |-> FALSE, val |-> <<>>]
    /\ pc = "name"
    /\ cmd = "list" /\ repo = NoDescriptor /\ i = 1
    /\ out = <<>> /\ err = <<>> /\ queries = <<>> /\ events = <<>>
    /\ result = "None"
    /\ flagset = {} /\ code = <<>>

DeriveName ==
    /\ pc = "name"
    /\ derived' = Name(descriptor)
    /\ pc' = "named"
    /\ UNCHANGED <<cmd, repo, i, out, err, queries, result, events,
                   flagset, code, descriptor>>

SpecName == InitName /\ [][DeriveName]_vars

-----------------------------------------------------------------------------
(* Claims about the status code (SpecClassify) *)

\* The index column as the claim reads it off the staged flags.
IndexColumn(s) ==
    IF "INDEX_NEW" \in s THEN "A"
    ELSE IF "INDEX_MODIFIED" \in s THEN "M"
    ELSE IF "INDEX_DELETED" \in s THEN "D"
    ELSE IF "INDEX_RENAMED" \in s THEN "R"
    ELSE IF "INDEX_TYPECHANGE" \in s THEN "T"
    ELSE " "

\* C2: for every flagset with neither the ignored bit nor the worktree-new
\* bit, the first character of the rendered code is decided by the
\* index-vs-HEAD flags alone: A, M, D, R, T in that order of precedence, else
\* a space.
C2_IndexColumnFromIndexFlags ==
    (pc = "classified" /\ "IGNORED" \notin flagset /\ "WT_NEW" \notin flagset)
        => code[1] = IndexColumn(flagset)

\* C3: whenever the ignored bit is set the rendered code is exactly "!!",
\* whatever other bits are set.
C3_IgnoredPrecedence ==
    (pc = "classified" /\ "IGNORED" \in flagset) => code = <<"!", "!">>

\* C3 witness: an ignored entry that is also new in the index, modified in
\* the worktree and untracked has been rendered as "!!".
C3_Witness ==
    /\ pc = "classified"
    /\ {"IGNORED", "INDEX_NEW", "WT_MODIFIED", "WT_NEW"} \subseteq flagset
    /\ code = <<"!", "!">>

-----------------------------------------------------------------------------
(* Claims about name derivation (SpecName) *)

\* The location without its trailing separators and trailing "/." parts.
RECURSIVE Trimmed(_)
Trimmed(s) ==
    IF Len(s) > 0 /\ s[Len(s)] = "/" THEN Trimmed(SubSeq(s, 1, Len(s) - 1))
    ELSE IF Len(s) > 1 /\ s[Len(s)] = "." /\ s[Len(s) - 1] = "/"
    THEN Trimmed(SubSeq(s, 1, Len(s) - 1))
    ELSE s

\* The text after the last separator.
RECURSIVE AfterLastSeparator(_)
AfterLastSeparator(s) ==
    IF Len(s) = 0 \/ s[Len(s)] = "/" THEN <<>>
    ELSE Append(AfterLastSeparator(SubSeq(s, 1, Len(s) - 1)), s[Len(s)])

\* The final path segment of a location, read off the text: what follows the
\* last separator once trailing separators are dropped, unless that is
\* nothing, "." or "..".
FinalSegment(s) == AfterLastSeparator(Trimmed(s))

HasFinalSegment(s) == FinalSegment(s) \notin {<<>>, <<".">>, <<".", ".">>}

\* C9: the display name is the explicit name whenever one is given; with no
\* name it is the final path segment of the location, never empty; with no
\* name and no final path segment derivation ends in an error (the unwrap
\* panics) and yields no name.
C9_NameDerivation ==
    pc = "named" =>
        /\ descriptor.name.some =>
               derived = [ok |-> TRUE, val |-> descriptor.name.val]
        /\ (~descriptor.name.some /\ HasFinalSegment(descriptor.location)) =>
               /\ derived.ok
               /\ derived.val = FinalSegment(descriptor.location)
               /\ derived.val # <<>>
        /\ (~descriptor.name.some /\ ~HasFinalSegment(descriptor.location)) =>
               ~derived.ok

\* C9 witness: no name was given, the location "/.." has no final path
\* segment, and derivation has ended in the error outcome.
C9_Witness ==
    /\ pc = "named"
    /\ ~descriptor.name.some
    /\ descriptor.location = <<"/", ".", ".">>
    /\ ~derived.ok

-----------------------------------------------------------------------------
(* Claims about the dispatch loop and the operations (Spec) *)

\* The operation of the current iteration has ended, by returning or by a
\* panic.
Ended == pc \in {"iterated", "panicked"}

Returned == pc = "iterated"

LinesOfKind(kinds) == SelectSeq(out, LAMBDA l : l.kind \in kinds)

\* The answers statuses() gave in this iteration, in order.
StatusesSeen == SelectSeq(queries, LAMBDA q : q.call = "statuses")

TitleSucceeded == \E k \in 1..Len(out) : out[k].kind = "title"

\* C7: a status invocation whose title report succeeded, on a non-bare
\* repository whose status listing has no changed path, prints exactly one
\* "nothing changed" message and no per-path line and returns success; on a
\* repository whose listing has one or more changed paths it prints no
\* "nothing changed" message and exactly one line per changed path, in the
\* listing's order.  (The listing is the repository's: the same at both
\* queries of the invocation.)
C7_NothingChangedReport ==
    (cmd = "status" /\ Returned /\ TitleSucceeded /\ Len(StatusesSeen) > 0
        /\ StatusesSeen[1].ans = "ok") =>
        LET listing == StatusesSeen[1].listing
            paths   == LinesOfKind({"path"})
        IN  /\ Len(listing) = 0 =>
                /\ result = "Ok"
                /\ Len(LinesOfKind({"nothing_changed"})) = 1
                /\ Len(paths) = 0
            /\ (/\ Len(listing) > 0
                /\ Len(StatusesSeen) = 2
                /\ StatusesSeen[2].ans = "ok"
                /\ StatusesSeen[2].listing = listing) =>
                /\ result = "Ok"
                /\ Len(LinesOfKind({"nothing_changed"})) = 0
                /\ Len(paths) = Len(listing)
                /\ \A k \in 1..Len(listing) :
                       paths[k].path = PathText(listing[k].path)

\* C7 witness: status has returned success on a repository with no changed
\* path, having printed the title and the "nothing changed" message only.
C7_Witness ==
    /\ cmd = "status" /\ Returned /\ result = "Ok"
    /\ Len(StatusesSeen) = 1 /\ StatusesSeen[1].listing = <<>>
    /\ Len(out) = 2
    /\ out[1].kind = "title"
    /\ out[2] = NothingChanged

\* C10: a status invocation that returns success after the title report has
\* printed either the "nothing changed" message or at least one per-path
\* line, never neither and never both, whatever the backend answers while it
\* runs.
C10_SingleSnapshot ==
    (cmd = "status" /\ Returned /\ result = "Ok") =>
        (Len(LinesOfKind({"nothing_changed"})) = 1) # (Len(LinesOfKind({"path"})) >= 1)

\* The failures of fetch the claim lists: open, remote resolution, credential
\* supply, download, tip update (and disconnect between the last two).
BackendFailures ==
    {"OpenError", "HeadError", "RemoteError", "DownloadError",
     "DisconnectError", "TipsError"}

CredentialSupplyFailed ==
    /\ Len(events) > 0
    /\ events[Len(events)].cb = "credentials"
    /\ ~events[Len(events)].username

\* C1: when one repository's fetch fails in a backend step, that fetch alone
\* is aborted: the process never stops there with a repository after the
\* failing one still unprocessed.
C1_FetchIsolation ==
    (cmd = "fetch" /\ Ended /\ (result \in BackendFailures \/ CredentialSupplyFailed))
        => ~(pc = "panicked" /\ i < NumRepos)

\* C8: for every subcommand, when the operation of a repository returns a
\* failure the dispatch loop prints that failure to standard error before it
\* goes on.
C8_FailuresReported ==
    (Returned /\ result # "Ok") =>
        \E k \in 1..Len(err) : err[k] = [kind |-> "report", error |-> result]


\* Some backend query of this iteration reported the repository bare.
BareReported == \E k \in 1..Len(queries) :
                    queries[k].call = "is_bare" /\ queries[k].ans = "bare"

\* No backend query follows a report of bareness.
NothingAfterBare ==
    \A k \in 1..Len(queries) :
        (queries[k].call = "is_bare" /\ queries[k].ans = "bare") => k = Len(queries)

\* C4: for title report, status and fetch, an invocation on a repository the
\* backend reports as bare ends in a bare-repository error, and no backend
\* query follows the report of bareness.
C4_BareGuard ==
    (cmd \in {"list", "status", "fetch"} /\ BareReported) =>
        /\ NothingAfterBare
        /\ Ended => result = "BareError"

CallbackLineKinds == {"sideband", "tip_new", "tip_updated", "received", "resolving"}

\* C5: within one fetch every line printed by a sideband, tip-update or
\* transfer-progress callback comes before the summary line of that fetch;
\* no tip-update line follows the summary.
C5_CallbacksBeforeSummary ==
    cmd = "fetch" =>
        \A j, k \in 1..Len(out) :
            (j < k /\ out[j].kind = "summary") => out[k].kind \notin CallbackLineKinds

\* C5 witness: a fetch has returned success having printed a tip-update line
\* and a transfer-progress line, then the summary as its last line.
C5_Witness ==
    /\ cmd = "fetch" /\ Returned /\ result = "Ok"
    /\ Len(out) = 4
    /\ out[2].kind \in {"tip_new", "tip_updated"}
    /\ out[3].kind \in {"received", "resolving"}
    /\ out[4].kind = "summary"

\* The transfer-progress callbacks of this fetch and the lines they printed.
TransferEvents == SelectSeq(events, LAMBDA e : e.cb = "transfer_progress")

TransferPrinted == LinesOfKind({"received", "resolving"})

\* C6: over callbacks with non-negative, non-decreasing counters and
\* received <= total, the "received" line is printed only while objects
\* remain to receive, and once a callback had received = total no later
\* callback of the fetch prints the "received" line.
C6_PhaseNeverReverts ==
    cmd = "fetch" =>
        /\ Len(TransferPrinted) = Len(TransferEvents)
        /\ \A k \in 1..Len(TransferEvents) :
               TransferPrinted[k].kind = "received" =>
                   TransferEvents[k].received < TransferEvents[k].total
        /\ \A j, k \in 1..Len(TransferEvents) :
               (j < k /\ TransferEvents[j].received = TransferEvents[j].total)
                   => TransferPrinted[k].kind # "received"

====
